---- MODULE Spec2Model ----
(***************************************************************************)
(* Verification model of the plugin execution runtime:                     *)
(*   - the AssemblyScript marshaller (writeClass / writeArray, pinning),   *)
(*   - the GraphQL data source (callFunction, writeGraphQLResponse,        *)
(*     transformErrors, transformValue),                                   *)
(*   - the vector collection operations (Upsert, Delete, Search, ...).     *)
(* Each part has its own specification; the variables of the other parts   *)
(* stay at their idle values.                                              *)
(***************************************************************************)
EXTENDS Integers, Sequences, FiniteSets, TLC

\* ------------------------------------------------------------------------
\* Bounds of the model
\* ------------------------------------------------------------------------
MaxFields == 2
MaxLines == 2
MaxItems == 2
MaxBuf == 5
MaxOps == 3
MaxLayoutFields == 3
MaxBytes == 2
MaxNeighbours == 3
NumRuns == 2
NumInvocations == 3

\* ------------------------------------------------------------------------
\* Variables
\* ------------------------------------------------------------------------
VARIABLES
    \* --- marshaller: one writeClass / writeArray call on one module ---
    mfn,          \* "class" | "array" | "none": which function is running
    mpc,          \* position in the function
    fields,       \* typ.Fields (class) or the item types of arr (array)
    data,         \* per field / item: "value" | "null"           (input)
    isArr,        \* whether utils.ConvertToArray accepts data      (input)
    idx,          \* loop index over typ.Fields / arr (1-based)
    fptr,         \* ptr returned by the last writeField
    pins,         \* the local slice pins
    dptr,         \* loop index of the deferred unpin pass (1-based)
    offset,       \* named result offset
    err,          \* named result err: "nil" or an error name
    bufferOffset, \* writeArray's bufferOffset
    heap,         \* guest objects allocated so far (pointers)
    pinned,       \* guest objects currently pinned
    failure,      \* history: the first failure hit by the body ("none" if none)
    pinsAtFail,   \* history: Len(pins) when that failure was hit
    unpinFailed,  \* history: pointers whose unpin call failed
    allocLog,     \* history: per allocation, <<ptr, objects pinned then>>
    \* --- data source: concurrent Load / callFunction invocations ---
    cpc,          \* per invocation: position in callFunction
    fnName,       \* per invocation: callInfo.Function.Name             (input)
    mod,          \* per invocation: the module instance held (0 = none)
    cerr,         \* per invocation: the error callFunction returns
    instances,    \* module instances the runtime has instantiated so far
    closed,       \* module instances that were closed
    usedBy,       \* history: per instance, the invocations that ran on it
    usedClosed,   \* history: instances that were used after being closed
    \* --- vector collections: one collection of the manifest ---
    invalidEmbedders, \* manifest: search methods whose embedder has a bad signature
    namespaces,   \* the collection's namespace map (names that exist)
    TextMap,      \* per namespace: the keys that have a text
    IdMap,        \* per namespace: key -> external id (0 = none)
    lastId,       \* per namespace: the last external id handed out
    indexExists,  \* per namespace: search methods that have a VectorIndex
    VectorIndexMap, \* per namespace and search method: the <<id, key>> entries
    upc,          \* position of the Upsert in flight ("idle" if none)
    ukeys,        \* its keys
    uns,          \* its namespace
    utodo,        \* search methods its loop has not visited yet
    ucur,         \* the search method its loop is at
    uPre,         \* history: the indexes that existed when it began
    opCount,      \* history: Upserts and Deletes started
    allOk,        \* history: no Upsert or Delete has returned an error
    live,         \* history: per namespace, keys upserted and not deleted
    dead,         \* history: per namespace, keys deleted and not upserted again
    lastOp,       \* the result of the last Upsert / Delete that returned
    lastRead,     \* the result of the last read operation
    \* --- data source: transformErrors on one captured output buffer ---
    ebuf,         \* buf.String(), as a sequence of tokens               (input)
    epc,          \* "start" | "done"
    eout,         \* the []resolve.GraphQLError returned
    \* --- data source: transformData on one result ---
    sdata,        \* the JSON document json.Marshal(result) produced     (input)
    stf,          \* the templateField of the call                       (input)
    spc,          \* "start" | "done"
    sres,         \* what transformData returned: [ok, out]
    \* --- data source: the tail of Load (errors and response) ---
    rStdOut,      \* bStdOut when the function has returned               (input)
    rStdErr,      \* bStdErr when the function has returned               (input)
    rResult,      \* result of functions.CallFunction: [kind, val]        (input)
    rFnErr,       \* err of functions.CallFunction                        (input)
    rTf,          \* callInfo.Function                                    (input)
    rpc,          \* "call" | "write" | "done"
    gqlErrors,    \* the errors callFunction returns
    payload,      \* what writeGraphQLResponse wrote to the writer
    rRet,         \* the error writeGraphQLResponse returns
    rFunctions,   \* the names in functions.Functions                     (input)
    rInstances,   \* module instances this Load has acquired
    \* --- collections: NnClassify's label ranking ---
    ncluster,     \* the labels of each neighbour kept in the cluster     (input)
    npc,          \* "count" | "rank" | "done"
    labelCounts,  \* label -> number of occurrences in the cluster
    nruns,        \* the LabelsResult of the runs made so far
    \* --- ArrayBuffer handler and readField on a managed pointer ---
    bNullable,    \* h.nullable / IsNullable(typ)                         (input)
    bObj,         \* the host value given to Encode: [kind, bytes]        (input)
    bMem,         \* guest objects: pointer -> [id, size, bytes]
    bEnc,         \* what Encode returned: [ok, ptr]
    bpc,          \* "encode" | "decode" | "done"
    bVia,         \* the reader used: "Decode" | "Read" | "readField"
    bArg,         \* the pointer the reader was given or found in the field
    bDec,         \* what the reader returned: [ok, val, reads]
    \* --- class layout: the offset loops of writeClass and readClass ---
    ltyp,         \* typ.Fields: the field types in declaration order     (input)
    lpc,          \* "size" | "write" | "read" | "done"
    li,           \* the field the current loop is at
    totalSize,    \* writeClass: totalSize, the size it allocates
    fieldOffset,  \* the running fieldOffset of the current loop
    wOffsets,     \* the offsets writeClass wrote the fields at
    rOffsets      \* the offsets readClass read the fields at

marshalVars ==
    <<mfn, mpc, fields, data, isArr, idx, fptr, pins, dptr, offset, err,
      bufferOffset, heap, pinned, failure, pinsAtFail, unpinFailed, allocLog>>

callVars == <<cpc, fnName, mod, cerr, instances, closed, usedBy, usedClosed>>

collVars ==
    <<invalidEmbedders, namespaces, TextMap, IdMap, lastId, indexExists,
      VectorIndexMap, upc, ukeys, uns, utodo, ucur, uPre, opCount, allOk,
      live, dead, lastOp, lastRead>>

errVars == <<ebuf, epc, eout>>

shapeVars == <<sdata, stf, spc, sres>>

respVars ==
    <<rStdOut, rStdErr, rResult, rFnErr, rTf, rpc, gqlErrors, payload, rRet,
      rFunctions, rInstances>>

classVars ==
    <<ncluster, npc, labelCounts, nruns>>

bufVars ==
    <<bNullable, bObj, bMem, bEnc, bpc, bVia, bArg, bDec>>

layoutVars ==
    <<ltyp, lpc, li, totalSize, fieldOffset, wOffsets, rOffsets>>

vars ==
    <<marshalVars, callVars, collVars, errVars, shapeVars,
      respVars, classVars, bufVars, layoutVars>>

\* a step of one part leaves the other parts alone
MarshalStep ==
    UNCHANGED <<callVars, collVars, errVars, shapeVars, respVars, classVars,
                bufVars, layoutVars>>
CallStep ==
    UNCHANGED <<marshalVars, collVars, errVars, shapeVars, respVars,
                classVars, bufVars, layoutVars>>
CollStep ==
    UNCHANGED <<marshalVars, callVars, errVars, shapeVars, respVars,
                classVars, bufVars, layoutVars>>
ErrStep ==
    UNCHANGED <<marshalVars, callVars, collVars, shapeVars, respVars,
                classVars, bufVars, layoutVars>>
ShapeStep ==
    UNCHANGED <<marshalVars, callVars, collVars, errVars, respVars,
                classVars, bufVars, layoutVars>>
RespStep ==
    UNCHANGED <<marshalVars, callVars, collVars, errVars, shapeVars,
                classVars, bufVars, layoutVars>>
ClassStep ==
    UNCHANGED <<marshalVars, callVars, collVars, errVars, shapeVars,
                respVars, bufVars, layoutVars>>
BufStep ==
    UNCHANGED <<marshalVars, callVars, collVars, errVars, shapeVars,
                respVars, classVars, layoutVars>>
LayoutStep ==
    UNCHANGED <<marshalVars, callVars, collVars, errVars, shapeVars,
                respVars, classVars, bufVars>>

\* ------------------------------------------------------------------------
\* Idle values: the state of a part that a specification does not exercise
\* ------------------------------------------------------------------------
\* the marshaller when no call is modelled
IdleMarshal ==
    /\ mfn = "none" /\ mpc = "done" /\ fields = <<>> /\ data = <<>>
    /\ isArr = FALSE /\ idx = 0 /\ fptr = 0 /\ pins = <<>> /\ dptr = 0
    /\ offset = 0 /\ err = "nil" /\ bufferOffset = 0
    /\ heap = {} /\ pinned = {}
    /\ failure = "none" /\ pinsAtFail = 0 /\ unpinFailed = {}
    /\ allocLog = <<>>

\* in_mem.DefaultNamespace
DefaultNamespace == "default"

\* namespace names of the model
NamespaceNames == {DefaultNamespace}

\* the keys texts are stored under
Keys == {"a", "b"}

\* manifest: the search methods of the collection
SearchMethods == {"sm1", "sm2"}

NoOp == [op |-> "none", ok |-> TRUE, error |-> "", embedded |-> {}]
NoRead == [op |-> "none", ok |-> TRUE, key |-> "", objects |-> <<>>,
           found |-> FALSE, torn |-> FALSE, dead |-> {},
           limit |-> 0, count |-> 0, nsArg |-> "",
           ref |-> [ok |-> TRUE, found |-> FALSE]]

\* the collection as GlobalNamespaceManager holds it at start: no namespace
EmptyCollection ==
    /\ namespaces = {}
    /\ TextMap = [n \in NamespaceNames |-> {}]
    /\ IdMap = [n \in NamespaceNames |-> [k \in Keys |-> 0]]
    /\ lastId = [n \in NamespaceNames |-> 0]
    /\ indexExists = [n \in NamespaceNames |-> {}]
    /\ VectorIndexMap = [n \in NamespaceNames |-> [m \in SearchMethods |-> {}]]
    /\ upc = "idle" /\ ukeys = {} /\ uns = DefaultNamespace
    /\ utodo = {} /\ ucur = "" /\ uPre = {}
    /\ opCount = 0 /\ allOk = TRUE
    /\ live = [n \in NamespaceNames |-> {}]
    /\ dead = [n \in NamespaceNames |-> {}]
    /\ lastOp = NoOp /\ lastRead = NoRead

\* the collections with no operation modelled
IdleColl == invalidEmbedders = {} /\ EmptyCollection

\* JSON values: [t |-> kind, v |-> content].  An object is the sequence of
\* its <<key, value>> members in document order, an array the sequence of
\* its elements, a string the Go string it decodes to.
Null == [t |-> "null", v |-> <<>>]
Num == [t |-> "num", v |-> <<>>]
Str(g) == [t |-> "str", v |-> <<g>>]
Obj(members) == [t |-> "obj", v |-> members]
Arr(items) == [t |-> "arr", v |-> items]

\* templateField{Name, Alias, Fields}
Field(name, alias, fs) == [name |-> name, alias |-> alias, fields |-> fs]

NoResult == [ok |-> TRUE, out |-> <<>>]

\* transformData with no result
IdleShape ==
    /\ sdata = Null /\ stf = Field("fn", "", <<>>) /\ spc = "done"
    /\ sres = NoResult

\* the writer before anything is written to it
NoPayload ==
    [written |-> FALSE, hasData |-> FALSE, hasErrors |-> FALSE,
     data |-> <<>>, errors |-> <<>>]

\* the tail of Load with no call
IdleResp ==
    /\ rStdOut = <<>> /\ rStdErr = <<>>
    /\ rResult = [kind |-> "nil", val |-> Null]
    /\ rFnErr = "nil" /\ rTf = Field("fn", "", <<>>)
    /\ rpc = "done" /\ gqlErrors = <<>> /\ payload = NoPayload /\ rRet = "nil"
    /\ rFunctions = {} /\ rInstances = 0

\* transformErrors with no buffer
IdleErr == ebuf = <<>> /\ epc = "done" /\ eout = <<>>

\* the data source with no invocation
IdleCall ==
    /\ cpc = <<>> /\ fnName = <<>> /\ mod = <<>> /\ cerr = <<>>
    /\ instances = {} /\ closed = {} /\ usedBy = <<>> /\ usedClosed = {}

\* NnClassify with no query
IdleClass ==
    /\ ncluster = <<>> /\ npc = "done"
    /\ labelCounts = [l \in {} |-> 0] /\ nruns = <<>>

\* a host value for an ArrayBuffer: nil, or a byte sequence
NilValue == [kind |-> "nil", bytes |-> <<>>]
BytesValue(b) == [kind |-> "bytes", bytes |-> b]

\* the ArrayBuffer handler with nothing to marshal
IdleBuf ==
    /\ bNullable = FALSE /\ bObj = NilValue
    /\ bMem = [q \in {} |-> 0]
    /\ bEnc = [ok |-> FALSE, ptr |-> 0]
    /\ bpc = "done" /\ bVia = "" /\ bArg = 0
    /\ bDec = [ok |-> FALSE, val |-> NilValue, reads |-> {}]

\* no class being laid out
IdleLayout ==
    /\ ltyp = <<>> /\ lpc = "done" /\ li = 0
    /\ totalSize = 0 /\ fieldOffset = 0
    /\ wOffsets = <<>> /\ rOffsets = <<>>

\* ------------------------------------------------------------------------
\* Type info (languages/assemblyscript type info, as used by classes.go)
\* ------------------------------------------------------------------------
PrimitiveTypes == {"u8", "u16", "u32", "u64"}
ManagedTypes == {"string", "string | null"}
FieldTypes == PrimitiveTypes \cup ManagedTypes

IsNullable(typ) == typ = "string | null"

SizeOfType(typ) ==
    CASE typ = "u8" -> 1
      [] typ = "u16" -> 2
      [] typ = "u32" -> 4
      [] typ = "u64" -> 8
      [] OTHER -> 4

\* ------------------------------------------------------------------------
\* Guest helpers: allocateWasmMemory, pinWasmMemory, unpinWasmMemory.
\* Each is a call into the guest that either succeeds or returns an error.
\* ------------------------------------------------------------------------
NewPtr == Cardinality(heap) + 1

\* the fields / items still to be written hold these values
InputsOK(fs, ds) ==
    /\ Len(fs) = Len(ds)
    /\ \A i \in 1..Len(fs) :
         ds[i] \in (IF fs[i] \in ManagedTypes THEN {"value", "null"} ELSE {"value"})

SeqsUpTo(S, n) == UNION {[1..k -> S] : k \in 0..n}

\* the function returns (off, e): named results are set, then the deferred
\* unpin pass runs
ReturnWith(off, e) ==
    /\ offset' = off
    /\ err' = e
    /\ dptr' = 1
    /\ mpc' = "defer"

\* a failure inside the body: remember the first one and the pins held then
NoteFailure(e) ==
    /\ failure' = IF failure = "none" THEN e ELSE failure
    /\ pinsAtFail' = IF failure = "none" THEN Len(pins) ELSE pinsAtFail

\* ------------------------------------------------------------------------
\* writeClass
\* ------------------------------------------------------------------------
\* offset, err = wa.allocateWasmMemory(ctx, mod, totalSize, typ.Id)
WriteClassAllocate ==
    /\ MarshalStep
    /\ mfn = "class" /\ mpc = "alloc"
    /\ \E ok \in BOOLEAN :
         IF ok
         THEN /\ heap' = heap \cup {NewPtr}
              /\ allocLog' = Append(allocLog, <<NewPtr, pinned>>)
              /\ offset' = NewPtr
              /\ mpc' = "pin"
              /\ UNCHANGED <<err, dptr, failure, pinsAtFail>>
         ELSE /\ ReturnWith(0, "alloc")
              /\ NoteFailure("alloc")
              /\ UNCHANGED <<heap, allocLog>>
    /\ UNCHANGED <<mfn, fields, data, isArr, idx, fptr, pins, bufferOffset,
                   pinned, unpinFailed>>

\* err = wa.pinWasmMemory(ctx, mod, offset); pins = append(pins, offset)
WriteClassPin ==
    /\ MarshalStep
    /\ mfn = "class" /\ mpc = "pin"
    /\ \E ok \in BOOLEAN :
         IF ok
         THEN /\ pinned' = pinned \cup {offset}
              /\ pins' = Append(pins, offset)
              /\ idx' = 1
              /\ mpc' = "field"
              /\ UNCHANGED <<offset, err, dptr, failure, pinsAtFail>>
         ELSE /\ ReturnWith(0, "pin")
              /\ NoteFailure("pin")
              /\ UNCHANGED <<pinned, pins, idx>>
    /\ UNCHANGED <<mfn, fields, data, isArr, fptr, bufferOffset, heap,
                   unpinFailed, allocLog>>

\* writeField(ctx, mod, typ, offset, val): encodeValue, then the memory write.
\* out is what the call does: "encfail" (encodeValue fails, nothing is
\* allocated), "ok" (the value is written), "writefail" (the value was
\* encoded, the memory write fails).  A managed value that is not null is
\* allocated in the guest by encodeValue, and its pointer is returned.
WriteFieldAllocates(i) == fields[i] \in ManagedTypes /\ data[i] = "value"

WriteField(i, out) ==
    /\ out \in {"encfail", "ok", "writefail"}
    /\ IF out # "encfail" /\ WriteFieldAllocates(i)
       THEN /\ heap' = heap \cup {NewPtr}
            /\ allocLog' = Append(allocLog, <<NewPtr, pinned>>)
            /\ fptr' = NewPtr
       ELSE /\ fptr' = 0
            /\ UNCHANGED <<heap, allocLog>>

\* one iteration of the field loop up to the writeField call, or the final
\* return offset, nil
WriteClassField ==
    /\ MarshalStep
    /\ mfn = "class" /\ mpc = "field"
    /\ IF idx > Len(fields)
       THEN /\ ReturnWith(offset, "nil")
            /\ UNCHANGED <<heap, allocLog, fptr, failure, pinsAtFail>>
       ELSE \E out \in {"encfail", "ok", "writefail"} :
              /\ WriteField(idx, out)
              /\ IF out = "ok"
                 THEN /\ mpc' = "pinfield"
                      /\ UNCHANGED <<offset, err, dptr, failure, pinsAtFail>>
                 ELSE /\ ReturnWith(0, "write")
                      /\ NoteFailure("write")
    /\ UNCHANGED <<mfn, fields, data, isArr, idx, pins, bufferOffset, pinned,
                   unpinFailed>>

\* a variant that goes on to the next field without pinning the child
WriteClassPinFieldSkipped ==
    /\ MarshalStep
    /\ mfn = "class" /\ mpc = "pinfield"
    /\ idx' = idx + 1
    /\ mpc' = "field"
    /\ UNCHANGED <<pinned, pins, offset, err, dptr, failure, pinsAtFail>>
    /\ UNCHANGED <<mfn, fields, data, isArr, fptr, bufferOffset, heap,
                   unpinFailed, allocLog>>

\* if ptr != 0 { pin it; pins = append(pins, ptr) }; fieldOffset += size
WriteClassPinField ==
    /\ MarshalStep
    /\ mfn = "class" /\ mpc = "pinfield"
    /\ IF fptr = 0
       THEN /\ idx' = idx + 1
            /\ mpc' = "field"
            /\ UNCHANGED <<pinned, pins, offset, err, dptr, failure, pinsAtFail>>
       ELSE \E ok \in BOOLEAN :
              IF ok
              THEN /\ pinned' = pinned \cup {fptr}
                   /\ pins' = Append(pins, fptr)
                   /\ idx' = idx + 1
                   /\ mpc' = "field"
                   /\ UNCHANGED <<offset, err, dptr, failure, pinsAtFail>>
              ELSE /\ ReturnWith(0, "pin")
                   /\ NoteFailure("pin")
                   /\ UNCHANGED <<pinned, pins, idx>>
    /\ UNCHANGED <<mfn, fields, data, isArr, fptr, bufferOffset, heap,
                   unpinFailed, allocLog>>

\* the deferred function: for _, ptr := range pins { err = unpin(ptr);
\* if err != nil { break } }.  It assigns the named result err.
UnpinPass ==
    /\ MarshalStep
    /\ mpc = "defer"
    /\ IF dptr > Len(pins)
       THEN /\ mpc' = "done"
            /\ UNCHANGED <<err, dptr, pinned, unpinFailed>>
       ELSE \E ok \in BOOLEAN :
              IF ok
              THEN /\ pinned' = pinned \ {pins[dptr]}
                   /\ err' = "nil"
                   /\ dptr' = dptr + 1
                   /\ UNCHANGED <<mpc, unpinFailed>>
              ELSE /\ err' = "unpin"
                   /\ unpinFailed' = unpinFailed \cup {pins[dptr]}
                   /\ mpc' = "done"
                   /\ UNCHANGED <<dptr, pinned>>
    /\ UNCHANGED <<mfn, fields, data, isArr, idx, fptr, pins, offset,
                   bufferOffset, heap, failure, pinsAtFail, allocLog>>

WriteClassDefer == mfn = "class" /\ UnpinPass

\* ------------------------------------------------------------------------
\* writeArray
\* ------------------------------------------------------------------------
\* arr, err = utils.ConvertToArray(data): on failure the function returns
\* before the deferred unpin pass is registered.  With arrLen = 0 the buffer
\* part is skipped.
WriteArrayConvert ==
    /\ MarshalStep
    /\ mfn = "array" /\ mpc = "convert"
    /\ IF ~isArr
       THEN /\ offset' = 0
            /\ err' = "convert"
            /\ mpc' = "done"
            /\ NoteFailure("convert")
       ELSE /\ mpc' = IF Len(fields) > 0 THEN "allocbuf" ELSE "allocobj"
            /\ UNCHANGED <<offset, err, failure, pinsAtFail>>
    /\ UNCHANGED <<mfn, fields, data, isArr, idx, fptr, pins, dptr,
                   bufferOffset, heap, pinned, unpinFailed, allocLog>>

\* bufferOffset, err = wa.allocateWasmMemory(ctx, mod, bufferSize, 1)
WriteArrayAllocBuffer ==
    /\ MarshalStep
    /\ mfn = "array" /\ mpc = "allocbuf"
    /\ \E ok \in BOOLEAN :
         IF ok
         THEN /\ heap' = heap \cup {NewPtr}
              /\ allocLog' = Append(allocLog, <<NewPtr, pinned>>)
              /\ bufferOffset' = NewPtr
              /\ mpc' = "pinbuf"
              /\ UNCHANGED <<offset, err, dptr, failure, pinsAtFail>>
         ELSE /\ ReturnWith(0, "alloc")
              /\ NoteFailure("alloc")
              /\ UNCHANGED <<heap, allocLog, bufferOffset>>
    /\ UNCHANGED <<mfn, fields, data, isArr, idx, fptr, pins, pinned,
                   unpinFailed>>

\* err = wa.pinWasmMemory(ctx, mod, bufferOffset); pins = append(pins, bufferOffset)
WriteArrayPinBuffer ==
    /\ MarshalStep
    /\ mfn = "array" /\ mpc = "pinbuf"
    /\ \E ok \in BOOLEAN :
         IF ok
         THEN /\ pinned' = pinned \cup {bufferOffset}
              /\ pins' = Append(pins, bufferOffset)
              /\ idx' = 1
              /\ mpc' = "item"
              /\ UNCHANGED <<offset, err, dptr, failure, pinsAtFail>>
         ELSE /\ ReturnWith(0, "pin")
              /\ NoteFailure("pin")
              /\ UNCHANGED <<pinned, pins, idx>>
    /\ UNCHANGED <<mfn, fields, data, isArr, fptr, bufferOffset, heap,
                   unpinFailed, allocLog>>

\* one iteration of the item loop up to the writeField call; after the last
\* item control goes on to the array object
WriteArrayItem ==
    /\ MarshalStep
    /\ mfn = "array" /\ mpc = "item"
    /\ IF idx > Len(fields)
       THEN /\ mpc' = "allocobj"
            /\ UNCHANGED <<heap, allocLog, fptr, offset, err, dptr, failure,
                           pinsAtFail>>
       ELSE \E out \in {"encfail", "ok", "writefail"} :
              /\ WriteField(idx, out)
              /\ IF out = "ok"
                 THEN /\ mpc' = "pinitem"
                      /\ UNCHANGED <<offset, err, dptr, failure, pinsAtFail>>
                 ELSE /\ ReturnWith(0, "write")
                      /\ NoteFailure("write")
    /\ UNCHANGED <<mfn, fields, data, isArr, idx, pins, bufferOffset, pinned,
                   unpinFailed>>

\* if ptr != 0 { pin it; pins = append(pins, ptr) }
WriteArrayPinItem ==
    /\ MarshalStep
    /\ mfn = "array" /\ mpc = "pinitem"
    /\ IF fptr = 0
       THEN /\ idx' = idx + 1
            /\ mpc' = "item"
            /\ UNCHANGED <<pinned, pins, offset, err, dptr, failure, pinsAtFail>>
       ELSE \E ok \in BOOLEAN :
              IF ok
              THEN /\ pinned' = pinned \cup {fptr}
                   /\ pins' = Append(pins, fptr)
                   /\ idx' = idx + 1
                   /\ mpc' = "item"
                   /\ UNCHANGED <<offset, err, dptr, failure, pinsAtFail>>
              ELSE /\ ReturnWith(0, "pin")
                   /\ NoteFailure("pin")
                   /\ UNCHANGED <<pinned, pins, idx>>
    /\ UNCHANGED <<mfn, fields, data, isArr, fptr, bufferOffset, heap,
                   unpinFailed, allocLog>>

\* offset, err = wa.allocateWasmMemory(ctx, mod, size, typ.Id)
WriteArrayAllocObject ==
    /\ MarshalStep
    /\ mfn = "array" /\ mpc = "allocobj"
    /\ \E ok \in BOOLEAN :
         IF ok
         THEN /\ heap' = heap \cup {NewPtr}
              /\ allocLog' = Append(allocLog, <<NewPtr, pinned>>)
              /\ offset' = NewPtr
              /\ mpc' = "header"
              /\ UNCHANGED <<err, dptr, failure, pinsAtFail>>
         ELSE /\ ReturnWith(0, "alloc")
              /\ NoteFailure("alloc")
              /\ UNCHANGED <<heap, allocLog>>
    /\ UNCHANGED <<mfn, fields, data, isArr, idx, fptr, pins, bufferOffset,
                   pinned, unpinFailed>>

\* the four header words (buffer, dataStart, byteLength, length), then
\* return offset, nil; a failed memory write returns 0 and an error
WriteArrayHeader ==
    /\ MarshalStep
    /\ mfn = "array" /\ mpc = "header"
    /\ \E ok \in BOOLEAN :
         IF ok
         THEN /\ ReturnWith(offset, "nil")
              /\ UNCHANGED <<failure, pinsAtFail>>
         ELSE /\ ReturnWith(0, "write")
              /\ NoteFailure("write")
    /\ UNCHANGED <<mfn, fields, data, isArr, idx, fptr, pins, bufferOffset,
                   heap, pinned, unpinFailed, allocLog>>

WriteArrayDefer == mfn = "array" /\ UnpinPass

\* the inputs of one call
ClassInputs ==
    /\ fields \in SeqsUpTo(FieldTypes, MaxFields)
    /\ isArr = FALSE
    /\ mpc = "alloc"

ArrayInputs ==
    /\ \E t \in FieldTypes : \E n \in 0..MaxFields : fields = [i \in 1..n |-> t]
    /\ isArr \in BOOLEAN
    /\ mpc = "convert"


\* ------------------------------------------------------------------------
\* Data source: Load -> callFunction, one module instance per invocation
\* ------------------------------------------------------------------------
Invocations == 1..NumInvocations

\* functions.Functions: the registered functions
RegisteredFunctions == {"add"}
FunctionNames == RegisteredFunctions \cup {"nope"}

\* info, ok := functions.Functions[callInfo.Function.Name]; if !ok return
LookupFunction(p) ==
    /\ CallStep
    /\ cpc[p] = "lookup"
    /\ IF fnName[p] \in RegisteredFunctions
       THEN /\ cpc' = [cpc EXCEPT ![p] = "instantiate"]
            /\ UNCHANGED cerr
       ELSE /\ cpc' = [cpc EXCEPT ![p] = "done"]
            /\ cerr' = [cerr EXCEPT ![p] = "no function registered"]
    /\ UNCHANGED <<fnName, mod, instances, closed, usedBy, usedClosed>>

\* a pooled variant: an instance that exists is handed out again
GetModuleInstancePooled(p) ==
    /\ CallStep
    /\ cpc[p] = "instantiate"
    /\ IF instances # {}
       THEN \E m \in instances :
              /\ mod' = [mod EXCEPT ![p] = m]
              /\ UNCHANGED <<instances, usedBy>>
       ELSE /\ instances' = {1}
            /\ usedBy' = <<{}>>
            /\ mod' = [mod EXCEPT ![p] = 1]
    /\ cpc' = [cpc EXCEPT ![p] = "call"]
    /\ UNCHANGED <<fnName, cerr, closed, usedClosed>>

\* wasmhost.GetModuleInstance: RuntimeInstance.InstantiateModule with an
\* anonymous module name makes a new instance on every call, or fails.
\* On failure callFunction returns the error; on success it registers
\* defer mod.Close(ctx).
GetModuleInstance(p) ==
    /\ CallStep
    /\ cpc[p] = "instantiate"
    /\ \E ok \in BOOLEAN :
         IF ok
         THEN LET m == Cardinality(instances) + 1 IN
              /\ instances' = instances \cup {m}
              /\ usedBy' = Append(usedBy, {})
              /\ mod' = [mod EXCEPT ![p] = m]
              /\ cpc' = [cpc EXCEPT ![p] = "call"]
              /\ UNCHANGED cerr
         ELSE /\ cerr' = [cerr EXCEPT ![p] = "failed to instantiate"]
              /\ cpc' = [cpc EXCEPT ![p] = "done"]
              /\ UNCHANGED <<instances, usedBy, mod>>
    /\ UNCHANGED <<fnName, closed, usedClosed>>

\* result, err := functions.CallFunction(ctx, mod, info, callInfo.Parameters):
\* the guest function runs on mod and succeeds or fails
CallFunction(p) ==
    /\ CallStep
    /\ cpc[p] = "call"
    /\ usedBy' = [usedBy EXCEPT ![mod[p]] = @ \cup {p}]
    /\ usedClosed' = IF mod[p] \in closed THEN usedClosed \cup {mod[p]} ELSE usedClosed
    /\ \E e \in {"nil", "function failed"} : cerr' = [cerr EXCEPT ![p] = e]
    /\ cpc' = [cpc EXCEPT ![p] = "return"]
    /\ UNCHANGED <<fnName, mod, instances, closed>>

\* the output buffers are transformed, callFunction returns and the
\* deferred mod.Close(ctx) runs
ReturnAndClose(p) ==
    /\ CallStep
    /\ cpc[p] = "return"
    /\ closed' = closed \cup {mod[p]}
    /\ cpc' = [cpc EXCEPT ![p] = "done"]
    /\ UNCHANGED <<fnName, mod, cerr, instances, usedBy, usedClosed>>

InitCall ==
    /\ IdleMarshal /\ IdleColl /\ IdleErr /\ IdleShape /\ IdleResp
    /\ IdleClass /\ IdleBuf /\ IdleLayout
    /\ cpc = [p \in Invocations |-> "lookup"]
    /\ fnName \in [Invocations -> FunctionNames]
    /\ mod = [p \in Invocations |-> 0]
    /\ cerr = [p \in Invocations |-> "nil"]
    /\ instances = {} /\ closed = {} /\ usedBy = <<>> /\ usedClosed = {}

NextCall ==
    \/ \E p \in Invocations : LookupFunction(p)
    \/ \E p \in Invocations : GetModuleInstance(p)
    \/ \E p \in Invocations : CallFunction(p)
    \/ \E p \in Invocations : ReturnAndClose(p)

SpecCall == InitCall /\ [][NextCall]_vars

InitMarshal ==
    /\ IdleCall /\ IdleColl /\ IdleErr /\ IdleShape /\ IdleResp
    /\ IdleClass /\ IdleBuf /\ IdleLayout
    /\ mfn \in {"class", "array"}
    /\ IF mfn = "class" THEN ClassInputs ELSE ArrayInputs
    /\ data \in SeqsUpTo({"value", "null"}, MaxFields)
    /\ InputsOK(fields, data)
    /\ idx = 0 /\ fptr = 0 /\ pins = <<>> /\ dptr = 0
    /\ offset = 0 /\ err = "nil" /\ bufferOffset = 0
    /\ heap = {} /\ pinned = {}
    /\ failure = "none" /\ pinsAtFail = 0 /\ unpinFailed = {}
    /\ allocLog = <<>>

NextMarshal ==
    \/ WriteClassAllocate
    \/ WriteClassPin
    \/ WriteClassField
    \/ WriteClassPinField
    \/ WriteClassDefer
    \/ WriteArrayConvert
    \/ WriteArrayAllocBuffer
    \/ WriteArrayPinBuffer
    \/ WriteArrayItem
    \/ WriteArrayPinItem
    \/ WriteArrayAllocObject
    \/ WriteArrayHeader
    \/ WriteArrayDefer

SpecMarshal == InitMarshal /\ [][NextMarshal]_vars

\* C1: when writeClass / writeArray has returned, every pointer it pinned is
\* unpinned again (a pointer whose own unpin call failed is left aside), on
\* the success path and on every error path.
C1_AllPinsReleased == mpc = "done" => pinned \ unpinFailed = {}

\* C2: a failure hit after at least one pointer was pinned reaches the
\* caller: the call returns a non-nil error.
C2_FailureReturned ==
    (mpc = "done" /\ failure # "none" /\ pinsAtFail > 0) => err # "nil"

\* C18: at every guest allocation of a writeClass / writeArray call, every
\* object the call allocated before (the class object, the array buffer, the
\* children and items written so far) is pinned.  allocLog holds, for each
\* allocation, the new pointer and the pointers pinned at that moment.
C18_PinnedAtAllocation ==
    \A k \in 1..Len(allocLog) : \A j \in 1..(k - 1) :
      allocLog[j][1] \in allocLog[k][2]

\* a class with two managed fields was written: the second child was
\* allocated while the class object and the first child were pinned
C18_Witness ==
    /\ mfn = "class" /\ mpc = "done" /\ failure = "none"
    /\ Len(allocLog) = 3
    /\ allocLog[2][2] = {allocLog[1][1]}
    /\ allocLog[3][2] = {allocLog[1][1], allocLog[2][1]}

\* C3: every invocation that got a module instance got one of its own, no
\* instance ever ran two invocations or ran after it was closed, and once
\* callFunction has returned its instance is closed.
C3_OwnInstanceClosedOnReturn ==
    /\ \A p, q \in Invocations :
         (p # q /\ mod[p] # 0 /\ mod[q] # 0) => mod[p] # mod[q]
    /\ \A m \in instances : Cardinality(usedBy[m]) <= 1
    /\ usedClosed = {}
    /\ \A p \in Invocations :
         (cpc[p] = "done" /\ mod[p] # 0) => mod[p] \in closed

\* two invocations have returned, one after a failed function and one after
\* a successful one, each having run on its own instance
C3_Witness ==
    \E p, q \in Invocations :
      /\ p # q
      /\ cpc[p] = "done" /\ cpc[q] = "done"
      /\ mod[p] # 0 /\ mod[q] # 0
      /\ cerr[p] = "function failed" /\ cerr[q] = "nil"
      /\ usedBy[mod[p]] = {p} /\ usedBy[mod[q]] = {q}

\* ------------------------------------------------------------------------
\* Vector collections
\* ------------------------------------------------------------------------
\* if namespace == "" { namespace = in_mem.DefaultNamespace }
NsOrDefault(ns) == IF ns = "" THEN DefaultNamespace ELSE ns

\* the namespace arguments callers pass
NsArgs == {"", DefaultNamespace}

\* CollectionNamespace.InsertTexts: a key gets its external id on its first
\* insert, from the namespace's counter
RECURSIVE AssignIds(_, _, _)
AssignIds(idm, last, ks) ==
    IF ks = {} THEN idm
    ELSE LET k == CHOOSE x \in ks : TRUE IN
         IF idm[k] # 0
         THEN AssignIds(idm, last, ks \ {k})
         ELSE AssignIds([idm EXCEPT ![k] = last + 1], last + 1, ks \ {k})

NewKeys(ns, keys) == {k \in keys : IdMap[ns][k] = 0}

\* the keys an index holds a vector for
IndexKeys(ns, m) == {e[2] : e \in VectorIndexMap[ns][m]}
IndexIds(ns, m) == {e[1] : e \in VectorIndexMap[ns][m]}

\* CollectionNamespace.Len
NsLen(ns) == Cardinality(TextMap[ns])

\* the search methods for which the Upsert in flight has called the embedder
\* and received the embeddings
Embedded ==
    IF upc = "idle" THEN {}
    ELSE (SearchMethods \ utodo) \cup (IF upc = "embedded" THEN {ucur} ELSE {})

\* UpsertToCollection returns e ("" = nil error)
UpsertReturn(ns, keys, e) ==
    /\ upc' = "idle"
    /\ ukeys' = {} /\ utodo' = {} /\ ucur' = "" /\ uPre' = {}
    /\ lastOp' = [op |-> "upsert", ok |-> e = "", error |-> e,
                  embedded |-> Embedded]
    /\ allOk' = (allOk /\ e = "")
    /\ live' = IF e = "" THEN [live EXCEPT ![ns] = @ \cup keys] ELSE live

\* UpsertToCollection up to and including collNs.InsertTexts
UpsertToCollectionBegin(nsArg, keys, labelsOk) ==
    /\ CollStep
    /\ upc = "idle" /\ opCount < MaxOps
    /\ opCount' = opCount + 1
    /\ LET ns == NsOrDefault(nsArg) IN
       /\ namespaces' = namespaces \cup {ns}
       /\ uns' = ns
       /\ IF ~labelsOk
          THEN /\ UpsertReturn(ns, keys, "mismatch in number of labels and texts")
               /\ UNCHANGED <<TextMap, IdMap, lastId, dead>>
          ELSE /\ TextMap' = [TextMap EXCEPT ![ns] = @ \cup keys]
               /\ IdMap' = [IdMap EXCEPT ![ns] = AssignIds(@, lastId[ns], keys)]
               /\ lastId' = [lastId EXCEPT ![ns] = @ + Cardinality(NewKeys(ns, keys))]
               /\ dead' = [dead EXCEPT ![ns] = @ \ keys]
               /\ upc' = "loop"
               /\ ukeys' = keys
               /\ utodo' = SearchMethods
               /\ ucur' = ""
               /\ uPre' = indexExists[ns]
               /\ UNCHANGED <<lastOp, allOk, live>>
    /\ UNCHANGED <<invalidEmbedders, indexExists, VectorIndexMap, lastRead>>

\* one iteration of the loop over collectionData.SearchMethods (a Go map:
\* any order), up to the embeddings: GetVectorIndex or createIndexObject +
\* SetVectorIndex, validateEmbedder, wasmhost.CallFunction, the count check
UpsertToCollectionEmbed(m) ==
    /\ CollStep
    /\ upc = "loop" /\ m \in utodo
    /\ indexExists' = [indexExists EXCEPT ![uns] = @ \cup {m}]
    /\ IF m \in invalidEmbedders
       THEN UpsertReturn(uns, ukeys, "invalid embedder function signature")
       ELSE \E out \in {"ok", "embedder failed", "mismatch in number of embeddings"} :
              IF out = "ok"
              THEN /\ upc' = "embedded"
                   /\ ucur' = m
                   /\ UNCHANGED <<ukeys, utodo, uPre, lastOp, allOk, live>>
              ELSE UpsertReturn(uns, ukeys, out)
    /\ UNCHANGED <<invalidEmbedders, namespaces, TextMap, IdMap, lastId,
                   VectorIndexMap, uns, opCount, dead, lastRead>>

\* the rest of the iteration: GetExternalId for every key, then
\* vectorIndex.InsertVectors; after the last search method the Upsert returns
UpsertToCollectionInsert ==
    /\ CollStep
    /\ upc = "embedded"
    /\ IF \E k \in ukeys : IdMap[uns][k] = 0
       THEN /\ UpsertReturn(uns, ukeys, "external id not found")
            /\ UNCHANGED VectorIndexMap
       ELSE \E ok \in BOOLEAN :
              IF ~ok
              THEN /\ UpsertReturn(uns, ukeys, "insert vectors failed")
                   /\ UNCHANGED VectorIndexMap
              ELSE /\ VectorIndexMap' =
                        [VectorIndexMap EXCEPT ![uns][ucur] =
                           {e \in @ : e[2] \notin ukeys}
                             \cup {<<IdMap[uns][k], k>> : k \in ukeys}]
                   /\ IF utodo \ {ucur} = {}
                      THEN UpsertReturn(uns, ukeys, "")
                      ELSE /\ upc' = "loop"
                           /\ utodo' = utodo \ {ucur}
                           /\ UNCHANGED <<ukeys, ucur, uPre, lastOp, allOk, live>>
    /\ UNCHANGED <<invalidEmbedders, namespaces, TextMap, IdMap, lastId,
                   indexExists, uns, opCount, dead, lastRead>>

\* DeleteFromCollection returns e without having changed the texts
DeleteFails(e) ==
    /\ lastOp' = [op |-> "delete", ok |-> FALSE, error |-> e, embedded |-> {}]
    /\ allOk' = FALSE
    /\ UNCHANGED <<TextMap, IdMap, live, dead>>

\* a variant that deletes the text and leaves the vector indexes alone
DeleteFromCollectionTextOnly(nsArg, key) ==
    /\ CollStep
    /\ opCount < MaxOps
    /\ opCount' = opCount + 1
    /\ LET ns == NsOrDefault(nsArg) IN
       IF ns \notin namespaces \/ IdMap[ns][key] = 0
       THEN DeleteFails("not found")
       ELSE /\ TextMap' = [TextMap EXCEPT ![ns] = @ \ {key}]
            /\ IdMap' = [IdMap EXCEPT ![ns][key] = 0]
            /\ live' = [live EXCEPT ![ns] = @ \ {key}]
            /\ dead' = [dead EXCEPT ![ns] = @ \cup {key}]
            /\ lastOp' = [op |-> "delete", ok |-> TRUE, error |-> "", embedded |-> {}]
            /\ UNCHANGED allOk
    /\ UNCHANGED <<invalidEmbedders, namespaces, lastId, indexExists,
                   VectorIndexMap, upc, ukeys, uns, utodo, ucur, uPre, lastRead>>

\* DeleteFromCollection: GetExternalId, DeleteVector on every index of
\* GetVectorIndexMap (a Go map: any order; done holds the indexes visited
\* before a DeleteVector failed), then DeleteText
DeleteFromCollection(nsArg, key) ==
    /\ CollStep
    /\ opCount < MaxOps
    /\ opCount' = opCount + 1
    /\ LET ns == NsOrDefault(nsArg) IN
       IF ns \notin namespaces
       THEN DeleteFails("namespace not found") /\ UNCHANGED VectorIndexMap
       ELSE IF IdMap[ns][key] = 0
       THEN DeleteFails("external id not found") /\ UNCHANGED VectorIndexMap
       ELSE \E done \in SUBSET indexExists[ns] :
              /\ VectorIndexMap' =
                   [VectorIndexMap EXCEPT ![ns] =
                      [m \in SearchMethods |->
                         IF m \in done
                         THEN {e \in @[m] : e[1] # IdMap[ns][key]}
                         ELSE @[m]]]
              /\ IF done = indexExists[ns]
                 THEN /\ TextMap' = [TextMap EXCEPT ![ns] = @ \ {key}]
                      /\ IdMap' = [IdMap EXCEPT ![ns][key] = 0]
                      /\ live' = [live EXCEPT ![ns] = @ \ {key}]
                      /\ dead' = [dead EXCEPT ![ns] = @ \cup {key}]
                      /\ lastOp' = [op |-> "delete", ok |-> TRUE, error |-> "", embedded |-> {}]
                      /\ UNCHANGED allOk
                 ELSE DeleteFails("delete vector failed")
    /\ UNCHANGED <<invalidEmbedders, namespaces, lastId, indexExists,
                   upc, ukeys, uns, utodo, ucur, uPre, lastRead>>

\* the distance of a key's vector to the query vector
Distance(k) == IF k = "a" THEN 1 ELSE 2

\* keys in ascending order of distance
RECURSIVE ByDistance(_)
ByDistance(ks) ==
    IF ks = {} THEN <<>>
    ELSE LET k == CHOOSE x \in ks : \A y \in ks : Distance(x) <= Distance(y) IN
         <<k>> \o ByDistance(ks \ {k})

\* s[:n] of a Go slice with len(s) elements and capacity >= n: the elements
\* past len(s) are the zero values of the backing array (nil pointers)
NilObject == "<nil>"
SliceTo(s, n) == [i \in 1..n |-> IF i <= Len(s) THEN s[i] ELSE NilObject]

\* VectorIndex.Search(vec, limit, nil): the limit nearest entries
IndexSearch(ns, m, limit) ==
    LET hits == ByDistance(IndexKeys(ns, m)) IN
    IF Len(hits) <= limit THEN hits ELSE SubSeq(hits, 1, limit)

ReadFails(o) ==
    lastRead' = [op |-> o, ok |-> FALSE, key |-> "", objects |-> <<>>,
                 found |-> FALSE, torn |-> FALSE, dead |-> {},
                 limit |-> 0, count |-> 0, nsArg |-> "",
                 ref |-> [ok |-> TRUE, found |-> FALSE]]

\* the limits callers pass
Limits == {1, 3}

\* SearchCollection on the default namespace (namespaces = [])
SearchCollection(sm, limit) ==
    /\ CollStep
    /\ LET ns == DefaultNamespace IN
       IF sm \in invalidEmbedders \/ ns \notin namespaces \/ sm \notin indexExists[ns]
       THEN ReadFails("search")
       ELSE \E embedOk \in BOOLEAN :
              IF ~embedOk
              THEN ReadFails("search")
              ELSE lastRead' =
                     [op |-> "search", ok |-> TRUE, key |-> "",
                      objects |-> SliceTo(IndexSearch(ns, sm, limit), limit),
                      found |-> FALSE, torn |-> FALSE,
                      dead |-> IF allOk THEN dead[ns] ELSE {},
                      limit |-> limit, nsArg |-> "",
                      ref |-> [ok |-> TRUE, found |-> FALSE],
                      count |-> Cardinality(IndexKeys(ns, sm))]
    /\ UNCHANGED <<invalidEmbedders, namespaces, TextMap, IdMap, lastId,
                   indexExists, VectorIndexMap, upc, ukeys, uns, utodo, ucur,
                   uPre, opCount, allOk, live, dead, lastOp>>

\* what FindNamespace(ns) followed by GetText(key) gives
GetTextResult(ns, key) ==
    [ok |-> ns \in namespaces,
     found |-> ns \in namespaces /\ key \in TextMap[ns]]

\* GetTextFromCollection: FindNamespace(namespace), then collNs.GetText(key).
\* ref is what the same call gives for the namespace NsOrDefault(namespace).
\* torn records whether the read saw the text of a key of the Upsert in
\* flight while an index that existed before that Upsert has no vector for it.
GetTextFromCollection(nsArg, key) ==
    /\ CollStep
    /\ IF nsArg \notin namespaces
       THEN lastRead' = [NoRead EXCEPT !.op = "getText", !.ok = FALSE,
                                       !.nsArg = nsArg, !.key = key,
                                       !.ref = GetTextResult(NsOrDefault(nsArg), key)]
       ELSE lastRead' =
              [op |-> "getText", ok |-> TRUE, key |-> key, objects |-> <<>>,
               found |-> key \in TextMap[nsArg],
               torn |-> /\ allOk /\ upc # "idle" /\ uns = nsArg
                        /\ key \in ukeys /\ key \in TextMap[nsArg]
                        /\ \E m \in uPre : key \notin IndexKeys(nsArg, m),
               dead |-> {}, limit |-> 0, count |-> 0, nsArg |-> nsArg,
               ref |-> GetTextResult(NsOrDefault(nsArg), key)]
    /\ UNCHANGED <<invalidEmbedders, namespaces, TextMap, IdMap, lastId,
                   indexExists, VectorIndexMap, upc, ukeys, uns, utodo, ucur,
                   uPre, opCount, allOk, live, dead, lastOp>>

\* the keys arguments callers pass to Upsert
KeyLists == (SUBSET Keys) \ {{}}

InitColl ==
    /\ IdleMarshal /\ IdleCall /\ IdleErr /\ IdleShape /\ IdleResp
    /\ IdleClass /\ IdleBuf /\ IdleLayout
    /\ invalidEmbedders \in {{}, {"sm2"}}
    /\ EmptyCollection

NextColl ==
    \/ \E n \in NsArgs, ks \in KeyLists, l \in BOOLEAN :
         UpsertToCollectionBegin(n, ks, l)
    \/ \E m \in SearchMethods : UpsertToCollectionEmbed(m)
    \/ UpsertToCollectionInsert
    \/ \E n \in NsArgs, k \in Keys : DeleteFromCollection(n, k)
    \/ \E m \in SearchMethods, l \in Limits : SearchCollection(m, l)
    \/ \E n \in NsArgs, k \in Keys : GetTextFromCollection(n, k)

SpecColl == InitColl /\ [][NextColl]_vars

\* C4: a reader never sees the text of a key of the Upsert in flight while
\* an index that existed before that Upsert holds no vector for the key.
C4_NoTornRead == ~lastRead.torn

\* C5: at rest after successful Upserts and Deletes only, Len of a namespace
\* is the number of keys upserted and not deleted, and a Search made after
\* successful operations only returns no key that was deleted and not
\* upserted again.
C5_SearchAndLenConsistent ==
    /\ (allOk /\ upc = "idle") =>
         \A n \in namespaces : NsLen(n) = Cardinality(live[n])
    /\ (lastRead.op = "search" /\ lastRead.ok) =>
         \A i \in 1..Len(lastRead.objects) :
           lastRead.objects[i] \notin lastRead.dead

\* a Search, made after a successful Delete, that returned a key while
\* another key was deleted
C5_Witness ==
    /\ allOk /\ upc = "idle"
    /\ lastOp.op = "delete" /\ lastOp.ok
    /\ lastRead.op = "search" /\ lastRead.ok
    /\ lastRead.dead = {"a"}
    /\ lastRead.objects = <<"b", NilObject, NilObject>>
    /\ NsLen(DefaultNamespace) = 1

\* C11: a successful Search returns min(limit, count) objects, where count is
\* the number of merged hits, each of them a result object (none nil), in
\* ascending order of distance.
C11_SearchClamped ==
    (lastRead.op = "search" /\ lastRead.ok) =>
      /\ Len(lastRead.objects) =
           (IF lastRead.limit < lastRead.count
            THEN lastRead.limit ELSE lastRead.count)
      /\ \A i \in 1..Len(lastRead.objects) : lastRead.objects[i] # NilObject
      /\ \A i \in 1..(Len(lastRead.objects) - 1) :
           (lastRead.objects[i] # NilObject /\ lastRead.objects[i + 1] # NilObject)
             => Distance(lastRead.objects[i]) <= Distance(lastRead.objects[i + 1])

\* C13: an Upsert that fails with 'invalid embedder function signature' has
\* called no embedder and inserted no vector for any search method.
C13_ValidatedBeforeEmbedding ==
    (lastOp.op = "upsert"
       /\ lastOp.error = "invalid embedder function signature")
      => lastOp.embedded = {}

\* C14: GetText with the namespace argument "" has the result of GetText
\* with the namespace "default".
C14_EmptyNamespaceIsDefault ==
    (lastRead.op = "getText" /\ lastRead.nsArg = "")
      => [ok |-> lastRead.ok, found |-> lastRead.found] = lastRead.ref

\* C6: at rest every key in texts has an external id and every vector index
\* of the namespace holds exactly the external ids of the keys in texts.
C6_ConsistentAtRest ==
    upc = "idle" =>
      \A n \in namespaces :
        /\ \A k \in TextMap[n] : IdMap[n][k] # 0
        /\ \A m \in indexExists[n] :
             IndexIds(n, m) = {IdMap[n][k] : k \in TextMap[n]}

\* ------------------------------------------------------------------------
\* Data source: transformErrors / transformError
\* ------------------------------------------------------------------------
\* Text is a sequence of tokens: a word (a run of letters, written as one
\* token), ":", " " or "\n".
LevelWords == {"Debug", "Info", "Warning", "Error", "abort"}
Tokens == LevelWords \cup {"x", ":", " ", "\n"}

\* strings.Split(s, "\n"): the pieces between the separators, empty ones
\* included
RECURSIVE SplitLines(_)
SplitLines(t) ==
    IF \A i \in 1..Len(t) : t[i] # "\n"
    THEN <<t>>
    ELSE LET i == CHOOSE j \in 1..Len(t) :
                    t[j] = "\n" /\ \A k \in 1..(j - 1) : t[k] # "\n" IN
         <<SubSeq(t, 1, i - 1)>> \o SplitLines(SubSeq(t, i + 1, Len(t)))

\* strings.SplitN(msg, ": ", 2): the separator is dropped
SplitN2(msg) ==
    LET hits == {i \in 1..(Len(msg) - 1) : msg[i] = ":" /\ msg[i + 1] = " "} IN
    IF hits = {} THEN <<msg>>
    ELSE LET i == CHOOSE j \in hits : \A k \in hits : j <= k IN
         <<SubSeq(msg, 1, i - 1), SubSeq(msg, i + 2, Len(msg))>>

\* strings.SplitAfterN(msg, ": ", 2): split after the first ": "
SplitAfterN2(msg) ==
    LET hits == {i \in 1..(Len(msg) - 1) : msg[i] = ":" /\ msg[i + 1] = " "} IN
    IF hits = {} THEN <<msg>>
    ELSE LET i == CHOOSE j \in hits : \A k \in hits : j <= k IN
         <<SubSeq(msg, 1, i + 1), SubSeq(msg, i + 2, Len(msg))>>

\* the switch on a[0]
LevelOfPrefix(a0) ==
    CASE a0 = <<"Debug", ":", " ">> -> "debug"
      [] a0 = <<"Info", ":", " ">> -> "info"
      [] a0 = <<"Warning", ":", " ">> -> "warning"
      [] a0 = <<"Error", ":", " ">> -> "error"
      [] a0 = <<"abort", ":", " ">> -> "fatal"
      [] OTHER -> ""

\* resolve.GraphQLError{Message, Path, Extensions}: hasExt tells whether
\* Extensions is set, level is Extensions["level"]
GraphQLError(msg, path, level) ==
    [message |-> msg, path |-> path, hasExt |-> level # "", level |-> level]

\* a variant that splits with strings.SplitN
TransformErrorSplitN(msg, path) ==
    LET a == SplitN2(msg)
        level == IF Len(a) = 2 THEN LevelOfPrefix(a[1]) ELSE ""
    IN GraphQLError(IF level # "" THEN a[2] ELSE msg, path, level)

\* transformError(msg, ci)
TransformError(msg, path) ==
    LET a == SplitAfterN2(msg)
        level == IF Len(a) = 2 THEN LevelOfPrefix(a[1]) ELSE ""
    IN GraphQLError(IF level # "" THEN a[2] ELSE msg, path, level)

\* transformErrors(buf, ci): one error per piece that is not empty
RECURSIVE ErrorsOfLines(_, _)
ErrorsOfLines(ls, path) ==
    IF ls = <<>> THEN <<>>
    ELSE (IF Head(ls) # <<>> THEN <<TransformError(Head(ls), path)>> ELSE <<>>)
           \o ErrorsOfLines(Tail(ls), path)

TransformErrors(buf, path) == ErrorsOfLines(SplitLines(buf), path)

\* the path of the errors of the call: []string{ci.Function.AliasOrName()}
FnPath == <<"fn">>

\* Source.callFunction's use of transformErrors on one buffer
TransformBuffer ==
    /\ ErrStep
    /\ epc = "start"
    /\ eout' = TransformErrors(ebuf, FnPath)
    /\ epc' = "done"
    /\ UNCHANGED ebuf

InitErr ==
    /\ IdleMarshal /\ IdleCall /\ IdleColl /\ IdleShape /\ IdleResp
    /\ IdleClass /\ IdleBuf /\ IdleLayout
    /\ ebuf \in SeqsUpTo(Tokens, MaxBuf)
    /\ epc = "start"
    /\ eout = <<>>

NextErr == TransformBuffer

SpecErr == InitErr /\ [][NextErr]_vars

\* --- what C8 expects, stated on the positions of the buffer ---
\* a line starts where a token that is not "\n" follows the start or a "\n"
LineStarts(t) ==
    {i \in 1..Len(t) : t[i] # "\n" /\ (i = 1 \/ t[i - 1] = "\n")}

\* the line that starts at i runs up to the next "\n" or the end
LineEnd(t, i) ==
    CHOOSE j \in i..Len(t) :
      /\ \A k \in i..j : t[k] # "\n"
      /\ (j = Len(t) \/ t[j + 1] = "\n")

LineAt(t, i) == SubSeq(t, i, LineEnd(t, i))

\* the n-th smallest element of a set of numbers
NthStart(S, n) == CHOOSE i \in S : Cardinality({j \in S : j < i}) = n - 1

LevelOfWord(w) ==
    CASE w = "Debug" -> "debug"
      [] w = "Info" -> "info"
      [] w = "Warning" -> "warning"
      [] w = "Error" -> "error"
      [] w = "abort" -> "fatal"

HasLevelPrefix(line) ==
    Len(line) >= 3 /\ line[1] \in LevelWords /\ line[2] = ":" /\ line[3] = " "

ExpectedError(line, path) ==
    IF HasLevelPrefix(line)
    THEN [message |-> SubSeq(line, 4, Len(line)), path |-> path,
          hasExt |-> TRUE, level |-> LevelOfWord(line[1])]
    ELSE [message |-> line, path |-> path, hasExt |-> FALSE, level |-> ""]

ExpectedErrors(t, path) ==
    [n \in 1..Cardinality(LineStarts(t)) |->
       ExpectedError(LineAt(t, NthStart(LineStarts(t), n)), path)]

\* C8: transformErrors yields one error per non-empty line, in line order;
\* a line that starts with Debug: , Info: , Warning: , Error: or abort:
\* gets the level debug, info, warning, error or fatal and the rest of the
\* line as message; any other line is the message, with no extensions.
C8_OneErrorPerLine == epc = "done" => eout = ExpectedErrors(ebuf, FnPath)

\* two lines: a plain one, then one with a level prefix and an empty message
C8_Witness ==
    /\ epc = "done"
    /\ ebuf = <<"x", "\n", "abort", ":", " ">>
    /\ Len(eout) = 2
    /\ ~eout[1].hasExt /\ eout[1].message = <<"x">>
    /\ eout[2].level = "fatal" /\ eout[2].message = <<>>

\* ------------------------------------------------------------------------
\* Data source: transformData / transformValue
\* ------------------------------------------------------------------------
\* templateField.AliasOrName
AliasOrName(tf) == IF tf.alias # "" THEN tf.alias ELSE tf.name

\* json.Marshal of a Go string: the JSON text, quotes and backslashes escaped
JsonQuote(g) ==
    CASE g = "s" -> "\"s\""
      [] g = "a\"b" -> "\"a\\\"b\""
      [] g = "a\\\"b" -> "\"a\\\\\\\"b\""

\* what jsonparser.Get / ArrayEach hand over for a string: the bytes between
\* the quotes of the JSON text, escapes left as they are
RawString(g) ==
    CASE g = "s" -> "s"
      [] g = "a\"b" -> "a\\\"b"

\* the JSON document of a value, as tokens (a member's key is one token)
RECURSIVE Render(_)
RECURSIVE RenderMembers(_, _)
RECURSIVE RenderItems(_, _)
RenderMembers(ms, i) ==
    IF i > Len(ms) THEN <<>>
    ELSE (IF i > 1 THEN <<",">> ELSE <<>>)
           \o <<ms[i][1], ":">> \o Render(ms[i][2])
           \o RenderMembers(ms, i + 1)

RenderItems(xs, i) ==
    IF i > Len(xs) THEN <<>>
    ELSE (IF i > 1 THEN <<",">> ELSE <<>>) \o Render(xs[i])
           \o RenderItems(xs, i + 1)

Render(val) ==
    CASE val.t = "null" -> <<"null">>
      [] val.t = "num" -> <<"1">>
      [] val.t = "str" -> <<JsonQuote(val.v[1])>>
      [] val.t = "obj" -> <<"{">> \o RenderMembers(val.v, 1) \o <<"}">>
      [] val.t = "arr" -> <<"[">> \o RenderItems(val.v, 1) \o <<"]">>

\* jsonparser.Get(data, name): the first member with that key
HasKey(val, name) == \E i \in 1..Len(val.v) : val.v[i][1] = name
Lookup(val, name) ==
    LET i == CHOOSE j \in 1..Len(val.v) :
               val.v[j][1] = name /\ \A k \in 1..(j - 1) : val.v[k][1] # name
    IN val.v[i][2]

Failed == [ok |-> FALSE, out |-> <<>>]
Bytes(toks) == [ok |-> TRUE, out |-> toks]

\* transformValue(data, tf) on the document of val
RECURSIVE TransformValue(_, _)
RECURSIVE TransformFields(_, _, _, _)
RECURSIVE TransformItems(_, _, _, _)

\* the loop over tf.Fields of the object case; buf is the buffer so far
TransformFields(val, tf, i, buf) ==
    IF i > Len(tf.fields) THEN Bytes(buf \o <<"}">>)
    ELSE LET f == tf.fields[i] IN
         IF ~HasKey(val, f.name) THEN Failed
         ELSE LET child == Lookup(val, f.name)
                  \* a string is handed over without its quotes and is
                  \* marshalled again; with f.Fields the quoted text is
                  \* neither an object nor an array
                  r == IF child.t = "str"
                       THEN IF f.fields = <<>>
                            THEN Bytes(<<JsonQuote(RawString(child.v[1]))>>)
                            ELSE Failed
                       ELSE TransformValue(child, f)
              IN IF ~r.ok THEN Failed
                 ELSE TransformFields(val, tf, i + 1,
                        buf \o (IF i > 1 THEN <<",">> ELSE <<>>)
                            \o <<AliasOrName(f), ":">> \o r.out)

\* the jsonparser.ArrayEach callback of the array case, element by element:
\* the comma is written when the buffer holds more than "[", and an element
\* whose transformValue fails is skipped
TransformItems(val, tf, i, buf) ==
    IF i > Len(val.v) THEN Bytes(buf \o <<"]">>)
    ELSE LET b1 == IF Len(buf) > 1 THEN buf \o <<",">> ELSE buf
             r == IF val.v[i].t = "str" THEN Failed
                  ELSE TransformValue(val.v[i], tf)
         IN TransformItems(val, tf, i + 1, IF r.ok THEN b1 \o r.out ELSE b1)

TransformValue(val, tf) ==
    IF tf.fields = <<>> THEN Bytes(Render(val))
    ELSE CASE val.t = "obj" -> TransformFields(val, tf, 1, <<"{">>)
           [] val.t = "arr" -> TransformItems(val, tf, 1, <<"[">>)
           [] OTHER -> Failed

\* transformData(data, tf): jsonparser.Set(`{}`, val, tf.AliasOrName())
TransformData(val, tf) ==
    LET r == TransformValue(val, tf) IN
    IF ~r.ok THEN Failed
    ELSE Bytes(<<"{", AliasOrName(tf), ":">> \o r.out \o <<"}">>)

\* writeGraphQLResponse's call of transformData
ShapeResult ==
    /\ ShapeStep
    /\ spc = "start"
    /\ sres' = TransformData(sdata, stf)
    /\ spc' = "done"
    /\ UNCHANGED <<sdata, stf>>

\* the results and selection sets of the model
LeafValues == {Null, Num, Str("s"), Str("a\"b")}

FlatObjects ==
    {Obj(<<>>)} \cup {Obj(<<<<"a", x>>>>) : x \in LeafValues}
      \cup {Obj(<<<<"a", x>>, <<"b", Num>>>>) : x \in LeafValues}

ItemValues == {Null, Obj(<<<<"a", Num>>>>), Obj(<<<<"a", Str("s")>>, <<"b", Num>>>>)}

Arrays == {Arr(xs) : xs \in SeqsUpTo(ItemValues, MaxItems)}

NestedObjects ==
    {Obj(<<<<"a", x>>>>) : x \in (FlatObjects \cup Arrays)}

Results == LeafValues \cup FlatObjects \cup Arrays \cup NestedObjects

LeafFields == {Field("a", "", <<>>), Field("b", "", <<>>), Field("a", "s", <<>>)}

InnerFields ==
    LeafFields \cup {Field("a", "", <<f>>) : f \in LeafFields}

Templates == {Field("fn", "", fs) : fs \in SeqsUpTo(InnerFields, 2)}

InitShape ==
    /\ IdleMarshal /\ IdleCall /\ IdleColl /\ IdleErr /\ IdleResp
    /\ IdleClass /\ IdleBuf /\ IdleLayout
    /\ sdata \in Results
    /\ stf \in Templates
    /\ spc = "start"
    /\ sres = NoResult

NextShape == ShapeResult

SpecShape == InitShape /\ [][NextShape]_vars

\* --- what C10 expects, stated on the values ---
RECURSIVE Shapeable(_, _)
Shapeable(val, tf) ==
    \/ tf.fields = <<>>
    \/ /\ val.t = "obj"
       /\ \A i \in 1..Len(tf.fields) :
            /\ HasKey(val, tf.fields[i].name)
            /\ Shapeable(Lookup(val, tf.fields[i].name), tf.fields[i])
    \/ /\ val.t = "arr"
       /\ \A i \in 1..Len(val.v) : Shapeable(val.v[i], tf)

RECURSIVE Shaped(_, _)
Shaped(val, tf) ==
    IF tf.fields = <<>> THEN val
    ELSE IF val.t = "obj"
    THEN Obj([i \in 1..Len(tf.fields) |->
                <<AliasOrName(tf.fields[i]),
                  Shaped(Lookup(val, tf.fields[i].name), tf.fields[i])>>])
    ELSE Arr([i \in 1..Len(val.v) |-> Shaped(val.v[i], tf)])

\* C10: when transformValue produces an output for a template with children,
\* the output is, for an object, the object of the template's children in
\* declaration order, keyed by alias-or-name, each value looked up by name
\* and shaped with the child template, and for an array, the array of the
\* shaped elements, one per input element, in the same order.
C10_ShapedBySelection ==
    (spc = "done" /\ stf.fields # <<>> /\ sres.ok) =>
      /\ Shapeable(sdata, stf)
      /\ sres.out = <<"{", AliasOrName(stf), ":">>
                      \o Render(Shaped(sdata, stf)) \o <<"}">>

\* ------------------------------------------------------------------------
\* Data source: the errors callFunction returns and writeGraphQLResponse
\* ------------------------------------------------------------------------
\* a variant that appends the stdout errors to the stderr errors
CollectErrorsStderrFirst(out, errb, path) ==
    TransformErrors(errb, path) \o TransformErrors(out, path)

\* gqlErrors := append(transformErrors(bStdOut, callInfo),
\*                     transformErrors(bStdErr, callInfo)...)
CollectErrors(out, errb, path) ==
    TransformErrors(out, path) \o TransformErrors(errb, path)

\* functions.ShouldReturnErrorToResponse
ShouldReturnErrorToResponse(e) == e # "internal error"

\* a variant whose path is the function's name
FnErrorByName(e, tf) ==
    [message |-> <<e>>, path |-> <<tf.name>>, hasExt |-> TRUE,
     level |-> "error"]

\* the error writeGraphQLResponse appends for the function's own error
FnError(e, tf) ==
    [message |-> <<e>>, path |-> <<AliasOrName(tf)>>, hasExt |-> TRUE,
     level |-> "error"]

WithFnError(errs, e, tf) ==
    IF e # "nil" /\ ShouldReturnErrorToResponse(e)
    THEN Append(errs, FnError(e, tf))
    ELSE errs

Response(p, e) == [payload |-> p, ret |-> e]

\* a variant that tests the result before the errors
WriteGraphQLResponseNilFirst(result, errs0, fnErr, tf) ==
    LET errs == WithFnError(errs0, fnErr, tf)
        d == TransformData(result.val, tf)
    IN IF result.kind = "nil"
       THEN Response([written |-> TRUE, hasData |-> FALSE, hasErrors |-> TRUE,
                      data |-> <<>>, errors |-> errs], "nil")
       ELSE IF result.kind = "unmarshalable" \/ ~d.ok
       THEN Response(NoPayload, "error")
       ELSE Response([written |-> TRUE, hasData |-> TRUE,
                      hasErrors |-> Len(errs) > 0,
                      data |-> d.out, errors |-> errs], "nil")

\* writeGraphQLResponse(writer, result, gqlErrors, fnErr, ci)
WriteGraphQLResponse(result, errs0, fnErr, tf) ==
    LET errs == WithFnError(errs0, fnErr, tf)
        \* json.Marshal(nil) is null
        d == TransformData(result.val, tf)
    IN IF Len(errs) > 0 /\ result.kind = "nil"
       THEN Response([written |-> TRUE, hasData |-> FALSE, hasErrors |-> TRUE,
                      data |-> <<>>, errors |-> errs], "nil")
       ELSE IF result.kind = "unmarshalable" \/ ~d.ok
       THEN Response(NoPayload, "error")
       ELSE Response([written |-> TRUE, hasData |-> TRUE,
                      hasErrors |-> Len(errs) > 0,
                      data |-> d.out, errors |-> errs], "nil")

\* callFunction: without an entry in functions.Functions it returns
\* nil, nil, "no function registered named ..." before it gets a module
\* instance; otherwise it gets an instance, the function runs, and it turns
\* the output buffers into errors and returns result, gqlErrors, err
CallFunctionReturns ==
    /\ RespStep
    /\ rpc = "call"
    /\ IF rTf.name \notin rFunctions
       THEN /\ gqlErrors' = <<>>
            /\ rFnErr' = "no function registered"
            /\ UNCHANGED rInstances
       ELSE /\ rInstances' = rInstances + 1
            /\ gqlErrors' = CollectErrors(rStdOut, rStdErr, <<AliasOrName(rTf)>>)
            /\ UNCHANGED rFnErr
    /\ rpc' = "write"
    /\ UNCHANGED <<rStdOut, rStdErr, rResult, rTf, payload, rRet, rFunctions>>

\* Load writes the response
LoadWritesResponse ==
    /\ RespStep
    /\ rpc = "write"
    /\ LET r == WriteGraphQLResponse(rResult, gqlErrors, rFnErr, rTf) IN
       /\ payload' = r.payload
       /\ rRet' = r.ret
    /\ rpc' = "done"
    /\ UNCHANGED <<rStdOut, rStdErr, rResult, rFnErr, rTf, gqlErrors,
                   rFunctions, rInstances>>

\* what the guest wrote: whole lines, each ended by "\n"
RECURSIVE JoinLines(_)
JoinLines(ls) ==
    IF ls = <<>> THEN <<>> ELSE Head(ls) \o <<"\n">> \o JoinLines(Tail(ls))

StdOutLines == {<<"o">>, <<"Warning", ":", " ", "o">>}
StdErrLines == {<<"e">>, <<"abort", ":", " ", "e">>}

\* results of functions.CallFunction: nil, a value, or a value json.Marshal
\* rejects (a NaN float)
CallResults ==
    {[kind |-> "nil", val |-> Null],
     [kind |-> "value", val |-> Num],
     [kind |-> "value", val |-> Obj(<<<<"a", Num>>>>)],
     [kind |-> "unmarshalable", val |-> Num]}

InitResp ==
    /\ IdleMarshal /\ IdleCall /\ IdleColl /\ IdleErr /\ IdleShape
    /\ IdleClass /\ IdleBuf /\ IdleLayout
    /\ \E ls \in SeqsUpTo(StdOutLines, MaxLines) : rStdOut = JoinLines(ls)
    /\ \E ls \in SeqsUpTo(StdErrLines, MaxLines) : rStdErr = JoinLines(ls)
    /\ rResult \in CallResults
    /\ rFnErr \in {"nil", "user error", "internal error"}
    /\ rFnErr # "nil" => rResult.kind = "nil"
    /\ rTf \in {Field("fn", "", <<>>), Field("fn", "al", <<Field("a", "", <<>>)>>)}
    /\ rFunctions \in {{}, {"fn"}}
    \* a function that is not registered does not run
    /\ rTf.name \notin rFunctions =>
         /\ rStdOut = <<>> /\ rStdErr = <<>>
         /\ rResult.kind = "nil" /\ rFnErr = "nil"
    /\ rInstances = 0
    /\ rpc = "call"
    /\ gqlErrors = <<>> /\ payload = NoPayload /\ rRet = "nil"

NextResp ==
    \/ CallFunctionReturns
    \/ LoadWritesResponse

SpecResp == InitResp /\ [][NextResp]_vars

\* --- what C7 and C9 expect, stated on the inputs of the call ---
FnErrSurfaced == rFnErr # "nil" /\ rFnErr # "internal error"

NumCollected ==
    Cardinality(LineStarts(rStdOut)) + Cardinality(LineStarts(rStdErr))
      + (IF FnErrSurfaced THEN 1 ELSE 0)

\* C7 as stated: an absent result gives {"errors":[...]} with no data key,
\* any other result gives {"data":...}, with errors iff an error was collected.
C7_ThreeShapes ==
    rpc = "done" =>
      IF rResult.kind = "nil"
      THEN payload.written /\ payload.hasErrors /\ ~payload.hasData
      ELSE /\ payload.written /\ payload.hasData
           /\ payload.hasErrors <=> (NumCollected > 0)

\* C7 amended: writeGraphQLResponse either returns an error and writes
\* nothing, or writes one payload: errors only (no data key) when the result
\* is absent and an error was collected, otherwise data (null under the
\* function's name for an absent result) with the errors key present iff an
\* error was collected.
C7_ShapesAmended ==
    rpc = "done" =>
      /\ rRet # "nil" <=> ~payload.written
      /\ rRet # "nil" => (payload = NoPayload /\ ~(rResult.kind = "nil" /\ NumCollected > 0))
      /\ payload.written =>
           IF rResult.kind = "nil" /\ NumCollected > 0
           THEN payload.hasErrors /\ ~payload.hasData /\ payload.data = <<>>
           ELSE /\ payload.hasData
                /\ payload.hasErrors <=> (NumCollected > 0)
                /\ payload.data[1] = "{" /\ payload.data[2] = AliasOrName(rTf)
                /\ rResult.kind = "nil" => payload.data = <<"{", AliasOrName(rTf), ":", "null", "}">>

\* an absent result with no error collected was written as data
C7_Witness ==
    /\ rpc = "done"
    /\ rResult.kind = "nil" /\ NumCollected = 0
    /\ payload.written /\ payload.hasData /\ ~payload.hasErrors
    /\ payload.data = <<"{", "fn", ":", "null", "}">>

\* C9: the errors of a response are the stdout errors in the order written,
\* then the stderr errors in the order written, then the function's own
\* error when it is surfaced.
C9_ErrorOrder ==
    (rpc = "done" /\ payload.written) =>
      LET path == <<AliasOrName(rTf)>> IN
      payload.errors =
        ExpectedErrors(rStdOut, path) \o ExpectedErrors(rStdErr, path)
          \o (IF FnErrSurfaced THEN <<FnError(rFnErr, rTf)>> ELSE <<>>)

\* a response with two stdout errors, a stderr error and the function's error
C9_Witness ==
    /\ rpc = "done" /\ payload.written
    /\ Len(payload.errors) = 4
    /\ payload.errors[1].message = <<"o">> /\ payload.errors[1].level = "warning"
    /\ payload.errors[2].message = <<"o">> /\ ~payload.errors[2].hasExt
    /\ payload.errors[3].message = <<"e">> /\ payload.errors[3].level = "fatal"
    /\ payload.errors[4] = FnError("user error", rTf)

\* ------------------------------------------------------------------------
\* Collections: the label ranking of NnClassify
\* ------------------------------------------------------------------------
Labels == {"x", "y", "z"}

\* the labels GetLabels returns for a key
LabelLists == {<<>>, <<"x">>, <<"y">>, <<"x", "y">>, <<"z">>}

Occurrences(labels, l) == Cardinality({i \in 1..Len(labels) : labels[i] = l})

\* for _, label := range labels { labelCounts[label]++; totalLabels++ }
\* over the neighbours of the cluster
CountLabels(cluster) ==
    LET seen == {l \in Labels : \E i \in 1..Len(cluster) :
                                  Occurrences(cluster[i], l) > 0}
        Sum[i \in 0..Len(cluster)] ==
            [l \in seen |-> IF i = 0 THEN 0
                            ELSE Sum[i - 1][l] + Occurrences(cluster[i], l)]
    IN Sum[Len(cluster)]

\* the orders in which a range over a Go map can visit its keys
Orders(S) ==
    {q \in [1..Cardinality(S) -> S] :
       \A i, j \in 1..Cardinality(S) : i # j => q[i] # q[j]}

\* less(i, j) of the sort: Confidence > Confidence, where Confidence is
\* count / totalLabels with the same totalLabels for every label
Less(x, y) == x.count > y.count

\* sort.Slice on a short slice is an insertion sort: an element moves left
\* while it is less than its left neighbour
RECURSIVE InsertLeft(_, _)
InsertLeft(sorted, x) ==
    IF sorted # <<>> /\ Less(x, sorted[Len(sorted)])
    THEN Append(InsertLeft(SubSeq(sorted, 1, Len(sorted) - 1), x),
                sorted[Len(sorted)])
    ELSE Append(sorted, x)

RECURSIVE SortSlice(_)
SortSlice(q) ==
    IF q = <<>> THEN <<>>
    ELSE InsertLeft(SortSlice(SubSeq(q, 1, Len(q) - 1)), q[Len(q)])

\* the loop over the cluster that fills labelCounts
NnClassifyCount ==
    /\ ClassStep
    /\ npc = "count"
    /\ labelCounts' = CountLabels(ncluster)
    /\ npc' = "rank"
    /\ UNCHANGED <<ncluster, nruns>>

\* for label, count := range labelCounts { append }, then sort.Slice
NnClassifyRank ==
    /\ ClassStep
    /\ npc = "rank"
    /\ \E order \in Orders(DOMAIN labelCounts) :
         nruns' = Append(nruns,
                    SortSlice([i \in 1..Len(order) |->
                                 [label |-> order[i],
                                  count |-> labelCounts[order[i]]]]))
    /\ npc' = IF Len(nruns) + 1 < NumRuns THEN "count" ELSE "done"
    /\ UNCHANGED <<ncluster, labelCounts>>

InitClass ==
    /\ IdleMarshal /\ IdleCall /\ IdleColl /\ IdleErr /\ IdleShape /\ IdleResp
    /\ IdleBuf /\ IdleLayout
    /\ ncluster \in SeqsUpTo(LabelLists, MaxNeighbours)
    /\ npc = "count"
    /\ labelCounts = [l \in {} |-> 0]
    /\ nruns = <<>>

NextClass ==
    \/ NnClassifyCount
    \/ NnClassifyRank

SpecClass == InitClass /\ [][NextClass]_vars

\* the order of the label strings
LabelIndex(l) == CHOOSE i \in 1..3 : <<"x", "y", "z">>[i] = l

\* C12: the labels of a run are in descending order of confidence, equal
\* confidences in the order of the label strings, and runs on the same
\* cluster return the same ranking.
C12_RankingStable ==
    npc = "done" =>
      /\ \A r \in 1..Len(nruns) : \A i \in 1..(Len(nruns[r]) - 1) :
           \/ nruns[r][i].count > nruns[r][i + 1].count
           \/ /\ nruns[r][i].count = nruns[r][i + 1].count
              /\ LabelIndex(nruns[r][i].label) < LabelIndex(nruns[r][i + 1].label)
      /\ \A r \in 1..Len(nruns) : nruns[r] = nruns[1]

\* C15: a Load of a function that is not registered gets no module instance
\* and writes an errors-only response with exactly one error, whose path is
\* the function's alias-or-name and whose level is error.
C15_UnknownFunction ==
    (rpc = "done" /\ rTf.name \notin rFunctions) =>
      /\ rInstances = 0
      /\ rRet = "nil"
      /\ payload.written /\ payload.hasErrors /\ ~payload.hasData
      /\ Len(payload.errors) = 1
      /\ payload.errors[1].path = <<IF rTf.alias # "" THEN rTf.alias ELSE rTf.name>>
      /\ payload.errors[1].hasExt /\ payload.errors[1].level = "error"
      /\ payload.errors[1].message = <<"no function registered">>

\* the response to a query for an unregistered function under an alias
C15_Witness ==
    /\ rpc = "done" /\ rFunctions = {} /\ rTf.name = "fn" /\ rTf.alias = "al"
    /\ rInstances = 0
    /\ payload.written /\ ~payload.hasData
    /\ Len(payload.errors) = 1 /\ payload.errors[1].path = <<"al">>

\* transformValue with the template tf is applied, at the top or further down,
\* to a value that is neither an object nor an array
RECURSIVE AppliedToScalar(_, _)
AppliedToScalar(val, tf) ==
    /\ tf.fields # <<>>
    /\ \/ val.t \notin {"obj", "arr"}
       \/ /\ val.t = "arr"
          /\ \E i \in 1..Len(val.v) : AppliedToScalar(val.v[i], tf)
       \/ /\ val.t = "obj"
          /\ \E i \in 1..Len(tf.fields) :
               /\ HasKey(val, tf.fields[i].name)
               /\ AppliedToScalar(Lookup(val, tf.fields[i].name), tf.fields[i])

\* C20: when transformValue with a template that has children meets a value
\* that is neither an object nor an array, an element of an array included,
\* transformData fails and produces no output.
C20_ScalarFails ==
    (spc = "done" /\ AppliedToScalar(sdata, stf)) =>
      (~sres.ok /\ sres.out = <<>>)

\* ------------------------------------------------------------------------
\* The ArrayBuffer handler (Encode / Decode / Read) and readField on a
\* managed pointer
\* ------------------------------------------------------------------------
ByteValues == {0, 255}

\* a host value that is neither nil, nor []byte, nor string
OtherValue == [kind |-> "other", bytes |-> <<>>]

\* uint32 subtraction; a word above 2^31 - 1 is written as the negative
\* number with the same bits, so 0 - 8 wraps to the word written -8
Sub32(a, b) == a - b

\* the pointer wa.AllocateMemory returns, and the address of a field that
\* holds a pointer
NewBufPtr == 16
FieldAddr == 64

\* the reader returned before it had a pointer
NoPointer == -1

\* an object of another class that the guest holds
GuestObjects == [q \in {32} |-> [id |-> 2, size |-> 1, bytes |-> <<7>>]]

ReadError(reads) == [ok |-> FALSE, val |-> NilValue, reads |-> reads]
ReadValue(v, reads) == [ok |-> TRUE, val |-> v, reads |-> reads]

\* a variant that reads the object header before it tests the pointer
DoReadBytesHeaderFirst(mem, nullable, off) ==
    LET hdr == {Sub32(off, 8), Sub32(off, 4)} IN
    IF off \notin DOMAIN mem THEN ReadError(hdr)
    ELSE IF mem[off].id # 1 THEN ReadError(hdr)
    ELSE IF mem[off].size = 0 THEN ReadValue(NilValue, hdr)
    ELSE ReadValue(BytesValue(mem[off].bytes), hdr \cup {off})

\* h.doReadBytes(wa, offset); reads are the addresses it reads memory at
DoReadBytes(mem, nullable, off) ==
    IF off = 0
    THEN IF nullable THEN ReadValue(NilValue, {}) ELSE ReadError({})
    ELSE IF off \notin DOMAIN mem
    THEN ReadError({Sub32(off, 8)})
    ELSE IF mem[off].id # 1
    THEN ReadError({Sub32(off, 8)})
    ELSE IF mem[off].size = 0
    THEN ReadValue(NilValue, {Sub32(off, 8), Sub32(off, 4)})
    ELSE ReadValue(BytesValue(mem[off].bytes),
                   {Sub32(off, 8), Sub32(off, 4), off})

\* h.Encode: doWriteBytes(obj), then []uint64{uint64(ptr)}
HandlerEncode ==
    /\ BufStep
    /\ bpc = "encode"
    /\ IF bObj.kind = "nil"
       THEN /\ bEnc' = [ok |-> bNullable, ptr |-> 0]
            /\ UNCHANGED bMem
       ELSE IF bObj.kind = "other"
       THEN /\ bEnc' = [ok |-> FALSE, ptr |-> 0]
            /\ UNCHANGED bMem
       ELSE \E out \in {"ok", "allocfail", "writefail"} :
              /\ bEnc' = [ok |-> out = "ok",
                          ptr |-> IF out = "ok" THEN NewBufPtr ELSE 0]
              /\ bMem' =
                   IF out = "allocfail" THEN bMem
                   ELSE [q \in DOMAIN bMem \cup {NewBufPtr} |->
                           IF q = NewBufPtr
                           THEN [id |-> 1, size |-> Len(bObj.bytes),
                                 bytes |-> IF out = "ok" THEN bObj.bytes
                                           ELSE [i \in 1..Len(bObj.bytes) |-> 0]]
                           ELSE bMem[q]]
    /\ bpc' = "decode"
    /\ UNCHANGED <<bNullable, bObj, bVia, bArg, bDec>>

\* the pointers a reader can meet: null, or a guest object
Pointers == {0} \cup DOMAIN bMem

\* h.Decode(ctx, wa, vals)
HandlerDecode ==
    /\ BufStep
    /\ bpc = "decode"
    /\ \E n \in {1, 2}, ptr \in Pointers :
         /\ bArg' = IF n = 1 THEN ptr ELSE NoPointer
         /\ bDec' = IF n # 1 THEN ReadError({})
                    ELSE DoReadBytes(bMem, bNullable, ptr)
    /\ bVia' = "Decode"
    /\ bpc' = "done"
    /\ UNCHANGED <<bNullable, bObj, bMem, bEnc>>

\* h.Read(ctx, wa, offset): the field at offset holds the pointer
HandlerRead ==
    /\ BufStep
    /\ bpc = "decode"
    /\ \E off \in {0, FieldAddr}, ptr \in Pointers, memOk \in BOOLEAN :
         IF off = 0
         THEN bArg' = NoPointer /\ bDec' = ReadError({})
         ELSE IF ~memOk
         THEN bArg' = NoPointer /\ bDec' = ReadError({off})
         ELSE /\ bArg' = ptr
              /\ bDec' = [DoReadBytes(bMem, bNullable, ptr)
                            EXCEPT !.reads = @ \cup {off}]
    /\ bVia' = "Read"
    /\ bpc' = "done"
    /\ UNCHANGED <<bNullable, bObj, bMem, bEnc>>

\* wa.readObject(ctx, mem, typ, p): the value of the object at p
ReadObject(mem, p) == ReadValue(BytesValue(mem[p].bytes), {p})

\* readField on a managed type: the default branch of the switch
ReadFieldManaged ==
    /\ BufStep
    /\ bpc = "decode"
    /\ \E p \in Pointers, memOk \in BOOLEAN :
         IF ~memOk
         THEN bArg' = NoPointer /\ bDec' = ReadError({FieldAddr})
         ELSE /\ bArg' = p
              /\ bDec' =
                   IF p = 0
                   THEN IF bNullable THEN ReadValue(NilValue, {FieldAddr})
                        ELSE ReadError({FieldAddr})
                   ELSE [ReadObject(bMem, p) EXCEPT !.reads = @ \cup {FieldAddr}]
    /\ bVia' = "readField"
    /\ bpc' = "done"
    /\ UNCHANGED <<bNullable, bObj, bMem, bEnc>>

InitBuf ==
    /\ IdleMarshal /\ IdleCall /\ IdleColl /\ IdleErr /\ IdleShape /\ IdleResp
    /\ IdleClass /\ IdleLayout
    /\ bNullable \in BOOLEAN
    /\ bObj \in {NilValue, OtherValue}
                  \cup {BytesValue(b) : b \in SeqsUpTo(ByteValues, MaxBytes)}
    /\ bMem = GuestObjects
    /\ bEnc = [ok |-> FALSE, ptr |-> 0]
    /\ bpc = "encode" /\ bVia = "" /\ bArg = NoPointer
    /\ bDec = ReadError({})

NextBuf ==
    \/ HandlerEncode
    \/ HandlerDecode
    \/ HandlerRead
    \/ ReadFieldManaged

SpecBuf == InitBuf /\ [][NextBuf]_vars

\* C16: Decode of what Encode returned for a byte sequence gives that byte
\* sequence back, the empty sequence included.
C16_RoundTrip ==
    (bpc = "done" /\ bVia = "Decode" /\ bObj.kind = "bytes"
       /\ bEnc.ok /\ bArg = bEnc.ptr)
      => (bDec.ok /\ bDec.val = bObj)

\* C17: a reader that is given the null pointer returns the absent value when
\* the type is nullable and an error when it is not, and reads no memory at
\* or below the null pointer.
C17_NullPointer ==
    (bpc = "done" /\ bArg = 0) =>
      /\ bNullable => (bDec.ok /\ bDec.val = NilValue)
      /\ ~bNullable => ~bDec.ok
      /\ bDec.reads \cap {0, Sub32(0, 4), Sub32(0, 8)} = {}

\* Read found the null pointer in the field of a nullable type
C17_Witness ==
    /\ bpc = "done" /\ bVia = "Read" /\ bArg = 0 /\ bNullable
    /\ bDec.ok /\ bDec.val = NilValue /\ bDec.reads = {FieldAddr}

\* ------------------------------------------------------------------------
\* Class layout: the field offsets of writeClass and readClass
\* ------------------------------------------------------------------------
\* x & y and x | y on unsigned words
RECURSIVE BitAnd(_, _)
BitAnd(x, y) ==
    IF x = 0 \/ y = 0 THEN 0
    ELSE (IF x % 2 = 1 /\ y % 2 = 1 THEN 1 ELSE 0)
           + 2 * BitAnd(x \div 2, y \div 2)

RECURSIVE BitOr(_, _)
BitOr(x, y) ==
    IF x = 0 THEN y
    ELSE IF y = 0 THEN x
    ELSE (IF x % 2 = 1 \/ y % 2 = 1 THEN 1 ELSE 0)
           + 2 * BitOr(x \div 2, y \div 2)

\* a variant that never pads
AlignPacked(off, size) == off

\* mask := size - 1; if off&mask != 0 { off = (off | mask) + 1 }
Align(off, size) ==
    LET mask == size - 1 IN
    IF BitAnd(off, mask) # 0 THEN BitOr(off, mask) + 1 ELSE off

\* writeClass, one iteration of the loop that computes totalSize
WriteClassTotalSize ==
    /\ LayoutStep
    /\ lpc = "size"
    /\ IF li > Len(ltyp)
       THEN /\ lpc' = "write" /\ li' = 1
            /\ UNCHANGED totalSize
       ELSE /\ totalSize' = Align(totalSize, SizeOfType(ltyp[li]))
                              + SizeOfType(ltyp[li])
            /\ li' = li + 1
            /\ UNCHANGED lpc
    /\ UNCHANGED <<ltyp, fieldOffset, wOffsets, rOffsets>>

\* writeClass, one iteration of the field loop: align fieldOffset, write the
\* field at offset+fieldOffset, move on by the field's size
WriteClassOffset ==
    /\ LayoutStep
    /\ lpc = "write"
    /\ IF li > Len(ltyp)
       THEN /\ lpc' = "read" /\ li' = 1 /\ fieldOffset' = 0
            /\ UNCHANGED wOffsets
       ELSE LET at == Align(fieldOffset, SizeOfType(ltyp[li])) IN
            /\ wOffsets' = Append(wOffsets, at)
            /\ fieldOffset' = at + SizeOfType(ltyp[li])
            /\ li' = li + 1
            /\ UNCHANGED lpc
    /\ UNCHANGED <<ltyp, totalSize, rOffsets>>

\* readClass, one iteration of the field loop
ReadClassOffset ==
    /\ LayoutStep
    /\ lpc = "read"
    /\ IF li > Len(ltyp)
       THEN /\ lpc' = "done"
            /\ UNCHANGED <<li, fieldOffset, rOffsets>>
       ELSE LET at == Align(fieldOffset, SizeOfType(ltyp[li])) IN
            /\ rOffsets' = Append(rOffsets, at)
            /\ fieldOffset' = at + SizeOfType(ltyp[li])
            /\ li' = li + 1
            /\ UNCHANGED lpc
    /\ UNCHANGED <<ltyp, totalSize, wOffsets>>

InitLayout ==
    /\ IdleMarshal /\ IdleCall /\ IdleColl /\ IdleErr /\ IdleShape /\ IdleResp
    /\ IdleClass /\ IdleBuf
    /\ ltyp \in SeqsUpTo(PrimitiveTypes \cup {"string"}, MaxLayoutFields)
    /\ lpc = "size" /\ li = 1
    /\ totalSize = 0 /\ fieldOffset = 0
    /\ wOffsets = <<>> /\ rOffsets = <<>>

NextLayout ==
    \/ WriteClassTotalSize
    \/ WriteClassOffset
    \/ ReadClassOffset

SpecLayout == InitLayout /\ [][NextLayout]_vars

\* the end of field i when it is placed at offs[i]
FieldEnd(offs, i) == IF i = 0 THEN 0 ELSE offs[i] + SizeOfType(ltyp[i])

\* C19: every field is at the smallest multiple of its size that is not
\* below the end of the field before it; readClass and writeClass use the
\* same offsets; the size writeClass allocates is the end of the last field.
C19_FieldOffsets ==
    lpc = "done" =>
      /\ Len(wOffsets) = Len(ltyp)
      /\ rOffsets = wOffsets
      /\ \A i \in 1..Len(ltyp) :
           LET size == SizeOfType(ltyp[i])
               prev == FieldEnd(wOffsets, i - 1)
           IN /\ wOffsets[i] % size = 0
              /\ wOffsets[i] >= prev
              /\ wOffsets[i] - prev < size
      /\ totalSize = FieldEnd(wOffsets, Len(ltyp))

\* a class {u8, u64, u16}: the u64 is padded to offset 8, the size is 18
C19_Witness ==
    /\ lpc = "done" /\ ltyp = <<"u8", "u64", "u16">>
    /\ wOffsets = <<0, 8, 16>> /\ rOffsets = <<0, 8, 16>>
    /\ totalSize = 18

====
